---- MODULE Spec2Model ----
(***************************************************************************)
(* Model of the rss-feeds batch runner (feed_generators/run_feeds.py) and   *)
(* of two of its pipelines (generalist_blog.py, meta_blog.py).              *)
(*                                                                          *)
(* Strings of the program are TLA+ strings where the code only compares     *)
(* them, and sequences of one-character strings where the code splits or    *)
(* strips them (the command line).  Feed names are abbreviated to one       *)
(* letter: "g" generalist_blog, "m" meta_blog, "p" paulgraham_blog (a       *)
(* registered pipeline whose body the runner treats as an opaque callable). *)
(***************************************************************************)
EXTENDS Integers, Sequences, FiniteSets, TLC

\* ------------------------------------------------------------------ bounds
MaxFeeds   == 2   \* longest list of plain feed-name arguments
MaxArgLen  == 3   \* longest single --feeds argument made of raw characters
MaxAnchors == 2   \* most anchors on a page
MaxClock   == 2   \* number of distinct instants the wall clock can show

\* ------------------------------------------------------------- small helpers
Range(s) == {s[k] : k \in 1..Len(s)}

SeqsUpTo(S, n) == UNION {[1..k -> S] : k \in 0..n}

RECURSIVE SelectIdx(_, _, _)
\* indices k of s, ascending, with Keep(s[k])
SelectIdx(s, Keep(_), k) ==
    IF k > Len(s) THEN <<>>
    ELSE (IF Keep(s[k]) THEN <<k>> ELSE <<>>) \o SelectIdx(s, Keep, k + 1)

\* ------------------------------------------------------------- command line
Space == " "
Comma == ","
Chars == {"g", Comma, Space}

RECURSIVE SplitOn(_, _)
\* str.split(sep) for a one-character separator: always at least one part
SplitOn(s, sep) ==
    IF \A k \in 1..Len(s) : s[k] # sep THEN <<s>>
    ELSE LET k == CHOOSE j \in 1..Len(s) :
                     s[j] = sep /\ \A h \in 1..(j - 1) : s[h] # sep
         IN  <<SubSeq(s, 1, k - 1)>> \o SplitOn(SubSeq(s, k + 1, Len(s)), sep)

RECURSIVE LStrip(_)
LStrip(s) == IF s # <<>> /\ s[1] = Space THEN LStrip(Tail(s)) ELSE s

RECURSIVE RStrip(_)
RStrip(s) ==
    IF s # <<>> /\ s[Len(s)] = Space THEN RStrip(SubSeq(s, 1, Len(s) - 1)) ELSE s

\* str.strip()
Strip(s) == RStrip(LStrip(s))

RECURSIVE StrippedParts(_)
\* inner loop of parse_feed_names over name.split(",")
StrippedParts(parts) ==
    IF parts = <<>> THEN <<>>
    ELSE (IF Strip(Head(parts)) # <<>> THEN <<Strip(Head(parts))>> ELSE <<>>)
         \o StrippedParts(Tail(parts))

RECURSIVE parse_feed_names(_)
parse_feed_names(raw_names) ==
    IF raw_names = <<>> THEN <<>>
    ELSE (IF Head(raw_names) = <<>> THEN <<>>
          ELSE StrippedParts(SplitOn(Head(raw_names), Comma)))
         \o parse_feed_names(Tail(raw_names))

\* ----------------------------------------------------------------- registry
NameG == <<"g">>
NameM == <<"m">>
NameP == <<"p">>
NameX == <<"x">>   \* a name that is not registered

\* the keys of FEED_RUNNERS; a runner is named by its key
FEED_RUNNERS == {NameG, NameM, NameP}

FileG == "feed_generalist_blog.xml"
FileM == "feed_meta_blog.xml"
FileP == "feed_paulgraham.xml"

FEED_OUTPUT_FILES == (NameG :> FileG) @@ (NameM :> FileM) @@ (NameP :> FileP)

FileKeys == {FileG, FileM, FileP}

NoRunner == <<>>    \* the None of FEED_RUNNERS.get(feed)
NoFile   == ""      \* the None of FEED_OUTPUT_FILES.get(feed)

\* a lookup that falls back to a registered runner
LookupFallback(name) == IF name \in FEED_RUNNERS THEN name ELSE NameP

\* FEED_RUNNERS.get(feed)
Lookup(name) == IF name \in FEED_RUNNERS THEN name ELSE NoRunner

\* FEED_OUTPUT_FILES.get(feed)
OutputFile(name) ==
    IF name \in DOMAIN FEED_OUTPUT_FILES THEN FEED_OUTPUT_FILES[name] ELSE NoFile

\* feeds_dir / f"feed_{feed_name}.xml" of save_rss_feed, feed_name defaulted
OwnFile(runner) ==
    CASE runner = NameG -> FileG
      [] runner = NameM -> FileM
      [] runner = NameP -> FileP

\* -------------------------------------------------------------------- files
\* A file on disk: absent, a well-formed RSS document (its lastBuildDate and
\* its items in document order), bytes that are not XML, or a file that has
\* been opened for writing and whose document is not yet on disk.
Absent  == [kind |-> "absent",  built |-> 0, items |-> <<>>]
Garbage == [kind |-> "garbage", built |-> 0, items |-> <<>>]
Partial == [kind |-> "partial", built |-> 0, items |-> <<>>]
Rss(built, items) == [kind |-> "rss", built |-> built, items |-> items]

NoDate == 0        \* Python None in a "date" field

Item(guid, link, title, description, pub) ==
    [guid |-> guid, link |-> link, title |-> title,
     description |-> description, pub |-> pub]

\* Path.exists()
Exists(f) == f.kind # "absent"

NoChecksum == [md5 |-> Absent]     \* the "" that file_checksum returns

\* md5 over the bytes of the file; distinct contents give distinct digests
file_checksum(f) == IF ~Exists(f) THEN NoChecksum ELSE [md5 |-> f]

\* guid or link or title
Identifier(it) ==
    IF it.guid # "" THEN it.guid ELSE IF it.link # "" THEN it.link ELSE it.title

RECURSIVE EntriesOf(_)
EntriesOf(items) ==
    IF items = <<>> THEN <<>>
    ELSE (IF Identifier(Head(items)) # ""
          THEN <<[id |-> Identifier(Head(items)), title |-> Head(items).title,
                  link |-> Head(items).link]>>
          ELSE <<>>) \o EntriesOf(Tail(items))

\* a missing file and a file ET.parse rejects both read as no entries
read_feed_entries(f) == IF f.kind = "rss" THEN EntriesOf(f.items) ELSE <<>>

Ids(entries) == {entries[k].id : k \in 1..Len(entries)}

\* [entry for entry in after_entries if entry[0] not in before_ids]
NewItems(after_entries, before_ids) ==
    LET Keep(e) == e.id \notin before_ids
        idx == SelectIdx(after_entries, Keep, 1)
    IN  [k \in 1..Len(idx) |-> after_entries[idx[k]]]

\* ------------------------------------------------------------ feed building
\* Python's order on tuples of numbers (a bool counts as 0 or 1)
TupleLt(a, b) ==
    \E k \in 1..Len(a) : a[k] < b[k] /\ \A h \in 1..(k - 1) : a[h] = b[h]

RECURSIVE InsertDescTiesFirst(_, _, _)
\* an insertion that also passes the indices whose key equals x's
InsertDescTiesFirst(order, x, keys) ==
    IF order = <<>> THEN <<x>>
    ELSE IF ~TupleLt(keys[x], keys[Head(order)]) THEN <<x>> \o order
    ELSE <<Head(order)>> \o InsertDescTiesFirst(Tail(order), x, keys)

RECURSIVE InsertDesc(_, _, _)
\* put index x behind every index whose key does not sort below x's
InsertDesc(order, x, keys) ==
    IF order = <<>> THEN <<x>>
    ELSE IF TupleLt(keys[Head(order)], keys[x]) THEN <<x>> \o order
    ELSE <<Head(order)>> \o InsertDesc(Tail(order), x, keys)

RECURSIVE SortDescFrom(_, _, _)
SortDescFrom(order, x, keys) ==
    IF x > Len(keys) THEN order
    ELSE SortDescFrom(InsertDesc(order, x, keys), x + 1, keys)

Reverse(s) == [k \in 1..Len(s) |-> s[Len(s) + 1 - k]]

\* sorted(seq, key=..., reverse=True) as the order of the indices of seq, given
\* the keys of its elements: descending, equal keys keep their order
SortedReverse(keys) == SortDescFrom(<<>>, 1, keys)

\* FeedGenerator.add_entry() puts each new entry in front of the earlier
\* ones, so the document lists the entries in the reverse of the add order
rss_file(built, added) == Rss(built, Reverse(added))

\* ---------------------------------------------------------- generalist_blog
\* One <a class="blog-menu-article-link">: its href ("" when missing), the
\* text of its <h1> ("" when missing or empty), its <h2> and its <p>.
GAnchor(href, h1, hasH2, h2, hasP, p) ==
    [href |-> href, h1 |-> h1, hasH2 |-> hasH2, h2 |-> h2, hasP |-> hasP, p |-> p]

GeneralistAnchors ==
    { GAnchor("/alpha", "Alpha", TRUE, "About alpha", TRUE, "Nov 02, 2025"),
      GAnchor("https://generalistai.com/alpha", "Alpha again", FALSE, "", FALSE, ""),
      GAnchor("/beta", "Beta", FALSE, "", TRUE, "November 01, 2025"),
      GAnchor("/gamma", "Gamma", TRUE, "", TRUE, "soon"),
      GAnchor("", "No link", FALSE, "", TRUE, "Nov 02, 2025"),
      GAnchor("/delta", "", TRUE, "Untitled", TRUE, "Nov 02, 2025") }

GeneralistPages == SeqsUpTo(GeneralistAnchors, MaxAnchors)

\* datetime.strptime with "%b %d, %Y" then "%B %d, %Y"; days count from the
\* first date of the model
parse_date(text) ==
    CASE text = "Nov 02, 2025"      -> 2
      [] text = "November 01, 2025" -> 1
      [] OTHER                      -> NoDate

\* href.startswith("http")
StartsWithHttp(href) == href \in {"https://generalistai.com/alpha"}

\* href if href.startswith("http") else f"https://generalistai.com{href}"
GeneralistLink(href) ==
    IF StartsWithHttp(href) THEN href
    ELSE CASE href = "/alpha" -> "https://generalistai.com/alpha"
           [] href = "/beta"  -> "https://generalistai.com/beta"
           [] href = "/gamma" -> "https://generalistai.com/gamma"
           [] href = "/delta" -> "https://generalistai.com/delta"

\* the record appended for one anchor that has an href and a title
GeneralistArticle(a, clock) ==
    LET date == IF a.hasP THEN parse_date(a.p) ELSE NoDate
    IN  [title       |-> a.h1,
         link        |-> GeneralistLink(a.href),
         description |-> IF a.hasH2 THEN a.h2 ELSE a.h1,
         date        |-> IF date # NoDate THEN date ELSE clock,
         category    |-> "Generalist AI"]

RECURSIVE generalist_extract_articles(_, _)
generalist_extract_articles(html, clock) ==
    IF html = <<>> THEN <<>>
    ELSE (IF Head(html).href = "" \/ Head(html).h1 = "" THEN <<>>
          ELSE <<GeneralistArticle(Head(html), clock)>>)
         \o generalist_extract_articles(Tail(html), clock)

\* fe.id(link), fe.title, fe.link, fe.description, fe.published, fe.category
Entry(article) ==
    Item(article.link, article.link, article.title, article.description,
         article.date)

\* the entries in the order generate_rss_feed adds them
generalist_generate_rss_feed(articles) ==
    LET order == SortedReverse([k \in 1..Len(articles) |-> <<articles[k].date>>])
    IN  [k \in 1..Len(articles) |-> Entry(articles[order[k]])]

\* a main() without the test for an empty extraction
generalist_main_unchecked(snapshot, html, clock) ==
    LET articles == generalist_extract_articles(html, clock)
        added    == generalist_generate_rss_feed(articles)
    IN  IF ~snapshot THEN
            [result |-> "False", writes |-> FALSE, doc |-> Absent, added |-> <<>>]
        ELSE
            [result |-> "True", writes |-> TRUE,
             doc |-> rss_file(clock, added), added |-> added]

\* main(): what it returns and the document it hands to save_rss_feed, if any.
\* snapshot is FALSE when htmls/"Generalist - Blog.html" is missing.
generalist_main(snapshot, html, clock) ==
    LET articles == generalist_extract_articles(html, clock)
        added    == generalist_generate_rss_feed(articles)
    IN  IF ~snapshot THEN
            [result |-> "False", writes |-> FALSE, doc |-> Absent, added |-> <<>>]
        ELSE IF articles = <<>> THEN
            [result |-> "False", writes |-> FALSE, doc |-> Absent, added |-> <<>>]
        ELSE
            [result |-> "True", writes |-> TRUE,
             doc |-> rss_file(clock, added), added |-> added]

\* ---------------------------------------------------------------- meta_blog
GENERIC_TITLES ==
    {"", "Featured", "The Latest", "About", "Meta AI", "AI Research", "Back",
     "Meta AI>", "AI Research>", "About>", "Learn More"}

\* One <a> the selector matches: its href, its text, its aria-label or title
\* attribute, and the text of the nearest of the anchor and its three
\* ancestors in which MONTH_REGEX finds a date ("" when none of them has one).
MAnchor(href, text, aria, near) ==
    [href |-> href, text |-> text, aria |-> aria, near |-> near]

MetaAnchors ==
    { MAnchor("/blog/llama-4/", "Llama 4 release", "", "April 1, 2025"),
      MAnchor("https://ai.meta.com/blog/llama-4/?utm=home", "learn more", "", ""),
      MAnchor("/blog/llama-4/", "Featured", "Llama 4: the herd", "Posted April 2, 2025"),
      MAnchor("/blog/about/", "About", "", "Apr 2, 2025"),
      MAnchor("/blog/about/", "About our research", "", "April 2, 2025"),
      MAnchor("https://ai.meta.com/blog/dino-v3", "DINOv3 models", "", "April 2, 2025"),
      MAnchor("/blog/sam/", "", "", ""),
      MAnchor("/blog/?page=2", "Next", "", "") }

MetaPages == SeqsUpTo(MetaAnchors, MaxAnchors)

\* "page=" in href
HasPageParam(href) == href \in {"/blog/?page=2"}

\* f"https://ai.meta.com{href}" if href.startswith("/") else href
MetaLink(href) ==
    CASE href = "/blog/llama-4/" -> "https://ai.meta.com/blog/llama-4/"
      [] href = "/blog/about/"   -> "https://ai.meta.com/blog/about/"
      [] href = "/blog/sam/"     -> "https://ai.meta.com/blog/sam/"
      [] href = "/blog/?page=2"  -> "https://ai.meta.com/blog/?page=2"
      [] OTHER                   -> href

\* link.split("/blog/", 1)[1].strip("/"), then "" -> None, then
\* .split("?")[0]: the slashes are stripped before the query is cut off
slugify_link(link) ==
    CASE link = "https://ai.meta.com/blog/llama-4/"          -> "llama-4"
      [] link = "https://ai.meta.com/blog/llama-4/?utm=home" -> "llama-4/"
      [] link = "https://ai.meta.com/blog/about/"            -> "about"
      [] link = "https://ai.meta.com/blog/sam/"              -> "sam"
      [] link = "https://ai.meta.com/blog/dino-v3"           -> "dino-v3"
      [] link = "https://ai.meta.com/blog/?page=2"           -> "?page=2"
      [] OTHER                                               -> ""

\* slug.replace("-", " ").title()
SlugTitle(slug) ==
    CASE slug = "llama-4"  -> "Llama 4"
      [] slug = "llama-4/" -> "Llama 4/"
      [] slug = "about"    -> "About"
      [] slug = "sam"      -> "Sam"
      [] slug = "dino-v3"  -> "Dino V3"
      [] OTHER             -> ""

\* cleaned.lower() in {t.lower() for t in GENERIC_TITLES}
LowerIsGeneric(t) == t \in GENERIC_TITLES \/ t = "learn more"

\* the texts of the model have no runs of white space to collapse
normalize_title(title) == IF LowerIsGeneric(title) THEN "" ELSE title

\* len(title)
StrLen(t) ==
    CASE t = ""                  -> 0
      [] t = "Sam"               -> 3
      [] t = "Next"              -> 4
      [] t = "About"             -> 5
      [] t = "Llama 4"           -> 7
      [] t = "Dino V3"           -> 7
      [] t = "Llama 4/"          -> 8
      [] t = "DINOv3 models"     -> 13
      [] t = "Llama 4 release"   -> 15
      [] t = "Llama 4: the herd" -> 17
      [] t = "About our research" -> 18

\* MONTH_REGEX knows full month names only
parse_date_from_text(text) ==
    CASE text = "April 1, 2025"        -> 1
      [] text = "April 2, 2025"        -> 2
      [] text = "Posted April 2, 2025" -> 2
      [] OTHER                         -> NoDate

\* the title chain of extract_articles: text, then attributes, then the slug
RawTitle(a, slug) ==
    IF normalize_title(a.text) # "" THEN normalize_title(a.text)
    ELSE IF normalize_title(a.aria) # "" THEN normalize_title(a.aria)
    ELSE SlugTitle(slug)

\* articles is the dict in insertion order: a sequence of [slug, art]
SlugIndex(articles, slug) ==
    IF \E k \in 1..Len(articles) : articles[k].slug = slug
    THEN CHOOSE k \in 1..Len(articles) : articles[k].slug = slug
    ELSE 0

\* one iteration of the loop of extract_articles
MetaStep(articles, a) ==
    LET link  == MetaLink(a.href)
        slug  == slugify_link(link)
        title == RawTitle(a, slug)
        date  == parse_date_from_text(a.near)
        k     == SlugIndex(articles, slug)
        old   == articles[k].art
        t2    == IF old.title \in GENERIC_TITLES /\ title \notin GENERIC_TITLES
                 THEN title ELSE old.title
        d2    == IF old.title \in GENERIC_TITLES /\ title \notin GENERIC_TITLES
                 THEN title ELSE old.description
        dt2   == IF old.date = NoDate /\ date # NoDate THEN date ELSE old.date
    IN  IF a.href = "" \/ HasPageParam(a.href) \/ slug = "" THEN articles
        ELSE IF k # 0 THEN
            [articles EXCEPT ![k].art =
                [old EXCEPT !.title = t2, !.description = d2, !.date = dt2]]
        ELSE Append(articles,
                [slug |-> slug,
                 art  |-> [title |-> title, link |-> link, description |-> title,
                           date |-> date, category |-> "AI at Meta"]])

RECURSIVE MetaLoop(_, _)
MetaLoop(articles, html) ==
    IF html = <<>> THEN articles
    ELSE MetaLoop(MetaStep(articles, Head(html)), Tail(html))

\* the dict that extract_articles returns, titles under 5 characters dropped
meta_extract_articles(html) ==
    LET all  == MetaLoop(<<>>, html)
        Keep(e) == StrLen(e.art.title) >= 5
        idx  == SelectIdx(all, Keep, 1)
    IN  [k \in 1..Len(idx) |-> all[idx[k]]]

DatetimeMin == -1      \* datetime.min, below every date

\* (item["date"] is not None, item["date"] or datetime.min)
sort_key(art) ==
    <<IF art.date # NoDate THEN 1 ELSE 0,
      IF art.date # NoDate THEN art.date ELSE DatetimeMin>>

\* the entries in the order generate_rss_feed adds them; an undated article
\* gets no pubDate
meta_generate_rss_feed(articles) ==
    LET order == SortedReverse([k \in 1..Len(articles) |-> sort_key(articles[k].art)])
    IN  [k \in 1..Len(articles) |-> Entry(articles[order[k]].art)]

\* main(): source is "page" (the local snapshot, or the live page when there
\* is no snapshot) or "fetch_error" (no snapshot and requests raised); every
\* exception ends in return False
meta_main(source, html, clock) ==
    LET articles == meta_extract_articles(html)
        added    == meta_generate_rss_feed(articles)
    IN  IF source = "fetch_error" THEN
            [result |-> "False", writes |-> FALSE, doc |-> Absent, added |-> <<>>]
        ELSE IF articles = <<>> THEN
            [result |-> "False", writes |-> FALSE, doc |-> Absent, added |-> <<>>]
        ELSE
            [result |-> "True", writes |-> TRUE,
             doc |-> rss_file(clock, added), added |-> added]

\* ------------------------------------------------- the other registered feeds
\* FEED_RUNNERS maps a name to a Callable[[], object].  "p" stands for a
\* registered pipeline the runner knows nothing more about: it returns any
\* object or raises, and leaves, removes or rewrites its output file.
PX == Item("https://paulgraham.com/x.html", "https://paulgraham.com/x.html",
           "Essay X", "Essay X", 1)
PY == Item("https://paulgraham.com/y.html", "https://paulgraham.com/y.html",
           "Essay Y", "Essay Y", 2)

OtherItems == {<<>>, <<PY, PX>>}

OtherResults == {"True", "None", "False", "raise"}

OtherEffects == {"leave", "remove", "write"}

\* ------------------------------------------------- files of an earlier run
PriorDoc(key) ==
    CASE key = FileG -> Rss(0, <<Item("", "https://generalistai.com/alpha",
                                    "Alpha", "About alpha", 2)>>)
      [] key = FileM -> Rss(0, <<Item("https://ai.meta.com/blog/llama-4/",
                                    "https://ai.meta.com/blog/llama-4/",
                                    "Llama 4 release", "Llama 4 release", 1)>>)
      [] key = FileP -> Rss(0, <<Item("", "", "Old essay", "", 0),
                               Item("", "https://paulgraham.com/x.html",
                                    "Essay X", "Essay X", 1),
                               Item("", "", "", "no identifier", 0)>>)

PriorKinds == {"absent", "garbage", "rss"}

PriorFile(key, kind) ==
    CASE kind = "absent"  -> Absent
      [] kind = "garbage" -> Garbage
      [] kind = "rss"     -> PriorDoc(key)

\* --------------------------------------------------------------- the program
VARIABLES
    given,          \* args.feeds is not None
    argv,           \* args.feeds: the raw --feeds arguments
    snapshots,      \* the pages under htmls/ and what a live fetch returns
    files,          \* the output files under feeds/, by feed
    now,            \* the wall clock
    pc,             \* "start", "loop", "writing", "done", "usage"
    feeds,          \* the list run_selected_feeds was called with
    i,              \* position of the loop in feeds
    successes, failures, updated, created_feeds, new_entries,
    exit_code,      \* status of the process, -1 while it runs
    pending,        \* the pipeline call in progress while pc = "writing"
    runs,           \* per position processed: the locals of that iteration
    obs             \* what another process last read from feeds/

vars == <<given, argv, snapshots, files, now, pc, feeds, i, successes, failures,
          updated, created_feeds, new_entries, exit_code, pending, runs, obs>>

NoPending == [name |-> <<>>, runner |-> NoRunner, before |-> Absent, result |-> "", doc |-> Absent,
              added |-> <<>>]

\* obs before the other process has read, and when there is no other process
NotRead  == [kind |-> "unread", built |-> 0, items |-> <<>>]
NoReader == [kind |-> "noreader", built |-> 0, items |-> <<>>]

\* list(FEED_RUNNERS): registration order
AllFeeds == <<NameP, NameM, NameG>>

PlainNames == {NameG, NameM, NameP, NameX}

\* the command lines of the model: lists of plain names, and one raw
\* argument of separators and letters
ArgLists ==
    SeqsUpTo(PlainNames, MaxFeeds) \cup {<<s>> : s \in SeqsUpTo(Chars, MaxArgLen)}

FixedGPage ==
    << GAnchor("/alpha", "Alpha", TRUE, "About alpha", TRUE, "Nov 02, 2025"),
       GAnchor("/beta", "Beta", FALSE, "", TRUE, "November 01, 2025") >>

FixedMPage ==
    << MAnchor("/blog/llama-4/", "Llama 4 release", "", "April 1, 2025"),
       MAnchor("/blog/about/", "About", "", "Apr 2, 2025") >>

Snapshots(gsnap, gpage, msource, mpage) ==
    [gsnap |-> gsnap, gpage |-> gpage, msource |-> msource, mpage |-> mpage]

InitCommon ==
    /\ now = 1
    /\ pc = "start"
    /\ feeds = <<>>
    /\ i = 0
    /\ successes = <<>>
    /\ failures = <<>>
    /\ updated = <<>>
    /\ created_feeds = <<>>
    /\ new_entries = [n \in FEED_RUNNERS |-> <<>>]
    /\ exit_code = -1
    /\ pending = NoPending
    /\ runs = <<>>

\* any command line, any earlier files, two fixed pages, no other process
InitRunner ==
    /\ obs = NoReader
    /\ \/ given = FALSE /\ argv = <<>>
       \/ given = TRUE /\ argv \in ArgLists
    /\ snapshots = Snapshots(TRUE, FixedGPage, "page", FixedMPage)
    /\ \E pf \in PriorKinds : files = [k \in FileKeys |-> PriorFile(k, pf)]

\* one or two runs of one site, any page, another process reading feeds/
InitPages ==
    /\ obs = NotRead
    /\ given = TRUE
    /\ argv \in {<<NameG>>, <<NameG, NameG>>, <<NameM>>, <<NameM, NameM>>}
    /\ \/ /\ argv[1] = NameG
          /\ \E gs \in BOOLEAN, gp \in GeneralistPages :
                snapshots = Snapshots(gs, IF gs THEN gp ELSE <<>>, "page", <<>>)
       \/ /\ argv[1] = NameM
          /\ \E ms \in {"page", "fetch_error"}, mp \in MetaPages :
                snapshots = Snapshots(FALSE, <<>>, ms,
                                      IF ms = "fetch_error" THEN <<>> ELSE mp)
    /\ \E pf \in PriorKinds : files = [k \in FileKeys |-> PriorFile(k, pf)]

Init == InitCommon /\ (InitRunner \/ InitPages)

\* ------------------------------------------------------- run_selected_feeds
\* an except clause that swallows the error without recording the feed
OutcomeSwallowed(result) ==
    IF result = "raise" THEN "none"
    ELSE IF result = "False" THEN "failure"
    ELSE "success"

\* which list the try block appends the feed to, given what runner() did
Outcome(result) ==
    IF result = "raise" THEN "failure"        \* except Exception
    ELSE IF result = "False" THEN "failure"   \* result is False
    ELSE "success"

\* the same tests with the checksum comparison tried first
ClassifyChecksumFirst(before_exists, before_checksum, after_checksum, after_entries) ==
    IF after_checksum # NoChecksum /\ after_checksum # before_checksum
    THEN "updated"
    ELSE IF ~before_exists /\ after_entries # <<>> THEN "created"
    ELSE "unchanged"

\* the if / elif / else on the output file of a feed that succeeded
Classify(before_exists, before_checksum, after_checksum, after_entries) ==
    IF ~before_exists /\ after_entries # <<>> THEN "created"
    ELSE IF after_checksum # NoChecksum /\ after_checksum # before_checksum
         THEN "updated"
    ELSE "unchanged"

\* a summary that logs the failures but does not turn them into a status
ExitStatusIgnored(fails) == 0

\* return 0 if not failures else 1
ExitStatus(fails) == IF fails = <<>> THEN 0 ELSE 1

\* the locals of one iteration for a feed that has a runner; before and
\* after are the output file at the snapshot and after the call
Locals(pos, name, before, result, after, added) ==
    LET before_entries == read_feed_entries(before)
        after_entries  == read_feed_entries(after)
        detect == Outcome(result) = "success" /\ OutputFile(name) # NoFile
    IN  [pos |-> pos, name |-> name, known |-> TRUE,
         ops |-> IF OutputFile(name) = NoFile THEN {"execute"}
                 ELSE IF detect THEN {"snapshot", "execute", "reread"}
                 ELSE {"snapshot", "execute"},
         before |-> before, after |-> after, result |-> result,
         outcome |-> Outcome(result), added |-> added,
         before_ids |-> Ids(before_entries),
         after_entries |-> after_entries,
         new_items |-> NewItems(after_entries, Ids(before_entries)),
         class |-> IF detect
                   THEN Classify(Exists(before), file_checksum(before),
                                 file_checksum(after), after_entries)
                   ELSE "none"]

\* the file the runner looks at for a feed, in the file system fs
Watched(fs, name) ==
    IF OutputFile(name) = NoFile THEN Absent ELSE fs[OutputFile(name)]

\* the rest of the iteration once runner() has returned or raised
Record(name, before, result, after, added) ==
    LET loc == Locals(i, name, before, result, after, added)
    IN  /\ successes' = IF loc.outcome = "success"
                        THEN Append(successes, name) ELSE successes
        /\ failures' = IF loc.outcome = "failure"
                       THEN Append(failures, name) ELSE failures
        /\ created_feeds' = IF loc.class = "created"
                            THEN Append(created_feeds, name) ELSE created_feeds
        /\ updated' = IF loc.class = "updated"
                      THEN Append(updated, name) ELSE updated
        /\ new_entries' = IF loc.class = "updated" /\ loc.new_items # <<>>
                          THEN [new_entries EXCEPT ![name] = loc.new_items]
                          ELSE new_entries
        /\ runs' = Append(runs, loc)
        /\ i' = i + 1
        /\ pc' = "loop"
        /\ pending' = NoPending

\* main(): parse the arguments, refuse an empty selection
Main ==
    /\ pc = "start"
    /\ LET selected == IF given THEN parse_feed_names(argv) ELSE AllFeeds
       IN  IF selected = <<>>
           THEN /\ pc' = "usage"          \* parser.error exits with status 2
                /\ exit_code' = 2
                /\ UNCHANGED <<feeds, i>>
           ELSE /\ pc' = "loop"
                /\ feeds' = selected
                /\ i' = 1
                /\ UNCHANGED exit_code
    /\ UNCHANGED <<given, argv, snapshots, files, now, successes, failures,
                   updated, created_feeds, new_entries, pending, runs, obs>>

\* FEED_RUNNERS.get(feed) is None
UnknownFeed ==
    /\ pc = "loop"
    /\ i <= Len(feeds)
    /\ Lookup(feeds[i]) = NoRunner
    /\ failures' = Append(failures, feeds[i])
    /\ runs' = Append(runs,
          [pos |-> i, name |-> feeds[i], known |-> FALSE, ops |-> {},
           before |-> Absent, after |-> Absent, result |-> "", 
           outcome |-> "failure", added |-> <<>>, before_ids |-> {},
           after_entries |-> <<>>, new_items |-> <<>>, class |-> "none"])
    /\ i' = i + 1
    /\ UNCHANGED <<given, argv, snapshots, files, now, pc, feeds, successes,
                   updated, created_feeds, new_entries, exit_code, pending, obs>>

\* the clock when a pipeline runs: the time of the last one or later
Clocks == {t \in now..(now + 1) : t <= MaxClock}

\* one call of runner() for feeds[i]: the file is snapshotted, then the
\* pipeline returns without touching its file, removes it, or opens it for
\* writing
RunMain(runner, out, removes, t) ==
    LET name == feeds[i]
        own  == OwnFile(runner)
    IN  /\ now' = t
        /\ IF out.writes
           THEN /\ files' = [files EXCEPT ![own] = Partial]
                /\ pending' = [name |-> name, runner |-> runner,
                               before |-> Watched(files, name),
                               result |-> out.result, doc |-> out.doc,
                               added |-> out.added]
                /\ pc' = "writing"
                /\ UNCHANGED <<i, successes, failures, updated, created_feeds,
                               new_entries, runs>>
           ELSE /\ files' = IF removes THEN [files EXCEPT ![own] = Absent]
                            ELSE files
                /\ Record(name, Watched(files, name), out.result,
                          Watched(files', name), out.added)
        /\ UNCHANGED <<given, argv, snapshots, feeds, exit_code, obs>>

RunGeneralist ==
    /\ pc = "loop"
    /\ i <= Len(feeds)
    /\ Lookup(feeds[i]) = NameG
    /\ \E t \in Clocks :
          RunMain(NameG, generalist_main(snapshots.gsnap, snapshots.gpage, t),
                  FALSE, t)

RunMeta ==
    /\ pc = "loop"
    /\ i <= Len(feeds)
    /\ Lookup(feeds[i]) = NameM
    /\ \E t \in Clocks :
          RunMain(NameM, meta_main(snapshots.msource, snapshots.mpage, t),
                  FALSE, t)

\* a registered pipeline known only as a callable
RunOther ==
    /\ pc = "loop"
    /\ i <= Len(feeds)
    /\ Lookup(feeds[i]) = NameP
    /\ \E t \in Clocks, result \in OtherResults, effect \in OtherEffects,
          items \in OtherItems :
          /\ effect # "write" => items = <<>> /\ t = now
          /\ RunMain(NameP,
                CASE effect = "write" ->
                        [result |-> result, writes |-> TRUE,
                         doc |-> Rss(t, items), added |-> Reverse(items)]
                  [] OTHER ->
                        [result |-> result, writes |-> FALSE, doc |-> Absent,
                         added |-> <<>>],
                effect = "remove", t)

\* rss_file() finishes: the document is on disk, the pipeline returns (or
\* raises), and the runner finishes the iteration
CompleteWrite ==
    /\ pc = "writing"
    /\ files' = [files EXCEPT ![OwnFile(pending.runner)] = pending.doc]
    /\ Record(pending.name, pending.before, pending.result,
              Watched(files', pending.name), pending.added)
    /\ UNCHANGED <<given, argv, snapshots, now, feeds, exit_code, obs>>

\* after the loop: the summary and the exit status
Summarize ==
    /\ pc = "loop"
    /\ i > Len(feeds)
    /\ exit_code' = ExitStatus(failures)
    /\ pc' = "done"
    /\ UNCHANGED <<given, argv, snapshots, files, now, feeds, i, successes,
                   failures, updated, created_feeds, new_entries, pending, runs,
                   obs>>

\* another process reads the output file of one of the requested feeds
ConcurrentRead ==
    /\ pc \in {"loop", "writing"}
    /\ obs # NoReader
    /\ \E k \in {OutputFile(feeds[j]) : j \in 1..Len(feeds)} \ {NoFile} :
          obs' = files[k]
    /\ UNCHANGED <<given, argv, snapshots, files, now, pc, feeds, i, successes,
                   failures, updated, created_feeds, new_entries, exit_code,
                   pending, runs>>

Next ==
    \/ Main
    \/ UnknownFeed
    \/ RunGeneralist
    \/ RunMeta
    \/ RunOther
    \/ CompleteWrite
    \/ Summarize
    \/ ConcurrentRead

Spec == Init /\ [][Next]_vars

\* ================================================================== claims
Positions == 1..Len(runs)

\* the names at the positions of runs that satisfy Keep, in order
NamesWhere(Keep(_)) ==
    LET idx == SelectIdx(runs, Keep, 1)
    IN  [k \in 1..Len(idx) |-> runs[idx[k]].name]

Succeeded(r) == r.outcome = "success"

\* what went wrong at a position, in the words of the claims
FailedHow(r) ==
    IF ~r.known THEN "unknown name"
    ELSE IF r.result = "raise" THEN "raised"
    ELSE IF r.result = "False" THEN "returned False"
    ELSE "nothing"

WentWell(r)  == FailedHow(r) = "nothing"
WentWrong(r) == FailedHow(r) # "nothing"

\* C1: per-feed isolation.  The feeds are processed in input order, whatever
\* happened to the earlier ones; the loop is never left before the last
\* position; and when the run has ended every requested position has been
\* recorded exactly once, in successes or in failures.
C1_Isolation ==
    /\ Len(runs) <= Len(feeds)
    /\ \A k \in Positions : runs[k].pos = k /\ runs[k].name = feeds[k]
    /\ pc \in {"loop", "writing"} => i = Len(runs) + 1
    /\ pc = "done" =>
          /\ Len(runs) = Len(feeds)
          /\ successes = NamesWhere(WentWell)
          /\ failures = NamesWhere(WentWrong)
          /\ Len(successes) + Len(failures) = Len(feeds)

\* a feed raised and the feed after it was still run, and succeeded
C1_Witness ==
    /\ pc = "done"
    /\ Len(runs) = 2
    /\ FailedHow(runs[1]) = "raised"
    /\ Succeeded(runs[2])
    /\ successes = <<feeds[2]>> /\ failures = <<feeds[1]>>

\* C2: the exit status is 0 exactly when no requested feed failed (unknown
\* name, returned False, raised), and 1 otherwise.
C2_ExitStatus ==
    pc = "done" =>
        /\ exit_code \in {0, 1}
        /\ exit_code = 0 <=> \A k \in Positions : FailedHow(runs[k]) = "nothing"

\* one feed failed, others succeeded and a file was created: status 1
C2_Witness ==
    /\ pc = "done"
    /\ exit_code = 1
    /\ Len(failures) = 1
    /\ successes # <<>>
    /\ created_feeds # <<>>

\* the identifiers of the entries of a file: guid, else link, else title
IdSet(f) ==
    IF f.kind # "rss" THEN {}
    ELSE {Identifier(f.items[j]) : j \in 1..Len(f.items)} \ {""}

HasEntry(f) == IdSet(f) # {}

Created(r) == r.class = "created"
Updated(r) == r.class = "updated"

\* C3 as claimed: created when the file is new and has entries, otherwise
\* updated exactly when the checksum differs from the one before (a file that
\* was there before and is gone afterwards included), otherwise unchanged.
C3_Orig ==
    \A k \in Positions :
        WentWell(runs[k]) =>
            LET r == runs[k]
            IN  r.class =
                  IF ~Exists(r.before) /\ HasEntry(r.after) THEN "created"
                  ELSE IF file_checksum(r.after) # file_checksum(r.before)
                       THEN "updated"
                  ELSE "unchanged"

\* C3 as amended: a file that is absent after the run is never `updated`;
\* `updated` needs a file that is there afterwards and whose checksum differs
\* from the one before.  The lists of the summary follow the classification.
C3_Classify ==
    /\ \A k \in Positions :
          WentWell(runs[k]) =>
            LET r == runs[k]
            IN  r.class =
                  IF ~Exists(r.before) /\ HasEntry(r.after) THEN "created"
                  ELSE IF Exists(r.after)
                          /\ file_checksum(r.after) # file_checksum(r.before)
                       THEN "updated"
                  ELSE "unchanged"
    /\ created_feeds = NamesWhere(Created)
    /\ updated = NamesWhere(Updated)

\* a run that found its file and left none is `unchanged`, and a later run
\* that finds no file and writes two entries is `created` with 2 entries
C3_Witness ==
    \E k, j \in Positions :
        /\ WentWell(runs[k]) /\ Exists(runs[k].before) /\ ~Exists(runs[k].after)
        /\ runs[k].class = "unchanged"
        /\ WentWell(runs[j]) /\ ~Exists(runs[j].before)
        /\ Len(runs[j].after_entries) = 2
        /\ runs[j].class = "created"
        /\ runs[j].name \in Range(created_feeds)

\* C4 as claimed: a successful run that finds a file with identifiers P and
\* leaves one with identifiers Q, Q not within P, is `updated`, and its new
\* entries are the identifiers of Q minus P, each once.
C4_Orig ==
    \A k \in Positions :
        LET r == runs[k]
            P == IdSet(r.before)
            Q == IdSet(r.after)
        IN  (WentWell(r) /\ Exists(r.before) /\ ~(Q \subseteq P)) =>
                /\ r.class = "updated"
                /\ Ids(r.new_items) = Q \ P
                /\ Len(r.new_items) = Cardinality(Q \ P)
                /\ k = Len(runs) => new_entries[r.name] = r.new_items

\* C5 as claimed: the second of two runs in a row of one site on the same
\* page leaves the entries of the first and is classified `unchanged`.
C5_Orig ==
    \A k \in Positions :
        (/\ k + 1 \in Positions
         /\ runs[k].name \in {NameG, NameM}
         /\ runs[k + 1].name = runs[k].name
         /\ WentWell(runs[k]) /\ WentWell(runs[k + 1])) =>
            /\ runs[k + 1].after.items = runs[k].after.items
            /\ runs[k + 1].class = "unchanged"

\* C6: an unknown name is recorded as a failure right after the lookup: no
\* snapshot, no pipeline, no output file read or written, and the name is
\* never among the successes, the created or the updated feeds.
C6_UnknownFeed ==
    /\ [](/\ \A k \in Positions :
                runs[k].name \notin FEED_RUNNERS =>
                    /\ runs[k].ops = {}
                    /\ FailedHow(runs[k]) = "unknown name"
                    /\ Len(failures) >= 1
          /\ \A n \in Range(successes) \cup Range(created_feeds) \cup Range(updated) :
                n \in FEED_RUNNERS
          /\ pc = "writing" => pending.name \in FEED_RUNNERS)
    /\ [][(pc = "loop" /\ i <= Len(feeds) /\ feeds[i] \notin FEED_RUNNERS) =>
            /\ files' = files
            /\ now' = now
            /\ pc' = "loop"
            /\ successes' = successes
            /\ i' # i => failures' = Append(failures, feeds[i])]_vars

\* an unknown name was skipped and the feed after it created its file
C6_Witness ==
    /\ pc = "done"
    /\ Len(runs) = 2
    /\ FailedHow(runs[1]) = "unknown name"
    /\ failures = <<feeds[1]>>
    /\ runs[2].class = "created"

\* the extractor of generalist_blog / meta_blog finds no article on the page
GEmpty ==
    /\ snapshots.gsnap
    /\ \A t \in 1..MaxClock : generalist_extract_articles(snapshots.gpage, t) = <<>>

MEmpty ==
    /\ snapshots.msource # "fetch_error"
    /\ meta_extract_articles(snapshots.mpage) = <<>>

\* C7: a page without articles makes the pipeline return False and leave the
\* output file as it was; the feed is failed, never created or updated.
C7_ExtractionEmpty ==
    \A n \in {NameG, NameM} :
        ((n = NameG /\ GEmpty) \/ (n = NameM /\ MEmpty)) =>
            /\ \A k \in Positions :
                  runs[k].name = n =>
                      /\ FailedHow(runs[k]) = "returned False"
                      /\ runs[k].after = runs[k].before
                      /\ files[OwnFile(n)] = runs[k].before
            /\ files[OwnFile(n)].kind # "partial"
            /\ pending.name # n
            /\ n \notin Range(successes) \cup Range(created_feeds) \cup Range(updated)
            /\ pc = "done" /\ n \in Range(feeds) => exit_code = 1

\* a page whose anchors are all rejected, a feed file of an earlier run
C7_Witness ==
    /\ pc = "done"
    /\ GEmpty
    /\ snapshots.gpage # <<>>
    /\ Len(runs) = 2
    /\ runs[1].name = NameG /\ runs[2].name = NameG
    /\ runs[2].before = PriorDoc(FileG)
    /\ files[FileG] = PriorDoc(FileG)
    /\ failures = <<NameG, NameG>>

\* C8 as claimed: another process never reads a file that save_rss_feed has
\* opened and not yet finished writing.
C8_Orig == obs.kind # "partial"

Separators == {Comma, Space}

RECURSIVE Tokens(_, _)
\* the maximal runs of non-separators of s; cur is the run being read
Tokens(s, cur) ==
    IF s = <<>> THEN (IF cur = <<>> THEN <<>> ELSE <<cur>>)
    ELSE IF Head(s) \in Separators
         THEN (IF cur = <<>> THEN <<>> ELSE <<cur>>) \o Tokens(Tail(s), <<>>)
    ELSE Tokens(Tail(s), Append(cur, Head(s)))

RECURSIVE TokensOfAll(_)
TokensOfAll(args) ==
    IF args = <<>> THEN <<>> ELSE Tokens(Head(args), <<>>) \o TokensOfAll(Tail(args))

\* C9 as claimed: the feeds processed are the non-blank names that splitting
\* the --feeds arguments on commas and white space gives, in order; with none
\* the program exits non-zero before any feed runs.
C9_Orig ==
    (given /\ pc # "start") =>
        IF TokensOfAll(argv) = <<>>
        THEN pc = "usage" /\ exit_code \notin {0, -1} /\ runs = <<>>
        ELSE /\ feeds = TokensOfAll(argv)
             /\ \A k \in Positions : runs[k].name = TokensOfAll(argv)[k]

Perms(n) == {f \in [1..n -> 1..n] : \A a, b \in 1..n : a # b => f[a] # f[b]}

\* added is recs (article records, in extraction order) by date descending,
\* undated (NoDate) last, records of one date in extraction order
DescStable(added, recs) ==
    /\ Len(added) = Len(recs)
    /\ \E f \in Perms(Len(recs)) :
          /\ \A a \in 1..Len(recs) : added[a] = Entry(recs[f[a]])
          /\ \A a, b \in 1..Len(recs) :
                a < b => \/ recs[f[a]].date > recs[f[b]].date
                         \/ recs[f[a]].date = recs[f[b]].date /\ f[a] < f[b]

\* C10: generate_rss_feed adds the entries by date, newest first, records of
\* one date in extraction order; in meta_blog the undated ones come last.
\* (Stated of the run just recorded: every run is the last one in some state.)
C10_BuilderOrder ==
    \A k \in Positions \cap {Len(runs)} :
        LET r == runs[k]
            metas == meta_extract_articles(snapshots.mpage)
        IN  /\ (r.name = NameG /\ WentWell(r)) =>
                  DescStable(r.added,
                      generalist_extract_articles(snapshots.gpage, r.after.built))
            /\ (r.name = NameM /\ WentWell(r)) =>
                  /\ DescStable(r.added, [j \in 1..Len(metas) |-> metas[j].art])
                  /\ \A a, b \in 1..Len(r.added) :
                        (a < b /\ r.added[a].pub = NoDate) => r.added[b].pub = NoDate

\* meta_blog: an undated article extracted first is added after a dated one
C10_Witness ==
    \E k \in Positions :
        /\ runs[k].name = NameM
        /\ Len(runs[k].added) = 2
        /\ meta_extract_articles(snapshots.mpage)[1].art.date = NoDate
        /\ runs[k].added[1].pub # NoDate
        /\ runs[k].added[2].pub = NoDate

\* The links of the entries a builder added, in the order it added them.
Links(added) == [a \in 1..Len(added) |-> added[a].link]

NoRepeat(s) == \A a, b \in 1..Len(s) : a # b => s[a] # s[b]

\* C11 as claimed: in every document that generalist_blog or meta_blog
\* builds, no two entries have the same link, whatever the page holds.
C11_Orig ==
    \A k \in Positions :
        (runs[k].name \in {NameG, NameM} /\ WentWell(runs[k])) =>
            NoRepeat(Links(runs[k].added))

\* The same statement of meta_blog alone, whose extractor keeps one record
\* per slug (the slug is computed from the link).
C11_MetaOnly ==
    \A k \in Positions :
        (runs[k].name = NameM /\ WentWell(runs[k])) =>
            NoRepeat(Links(runs[k].added))

====
